---- MODULE Spec2Model ----
(***************************************************************************)
(* Model of OrbitPropagator (src/OrbitPropagator.py): the constructor,     *)
(* the stepping loop of propagate_orbit and the equations of motion        *)
(* diffy_q.  Times are integer ticks; state components are integers, with  *)
(* one value standing for a float that is not finite.  Index i of the      *)
(* numpy arrays ys, ts, ta is index i of the functions below.              *)
(***************************************************************************)
EXTENDS Integers, FiniteSets, Sequences, TLC

\* ---- bounds of the explored inputs ----
MaxT == 3
MaxDt == 2
MaxCalls == 2

\* ---- numbers ----
\* the float produced by 0.0/0.0 in diffy_q (numpy nan)
NaN == 1000

\* cb['mu'], in model units
mu == 1

IsFinite(x) == x # NaN

IsFiniteVec(v) == \A i \in DOMAIN v : IsFinite(v[i])

FNeg(a) == IF a = NaN THEN NaN ELSE 0 - a

FMul(a, b) == IF a = NaN \/ b = NaN THEN NaN ELSE a * b

\* float division: x/0 is not an exception for numpy floats
FDiv(a, b) ==
  IF a = NaN \/ b = NaN THEN NaN
  ELSE IF b = 0 THEN NaN
  ELSE IF b > 0 THEN (IF a >= 0 THEN a \div b ELSE 0 - ((0 - a) \div b))
  ELSE (IF a >= 0 THEN 0 - (a \div (0 - b)) ELSE (0 - a) \div (0 - b))

\* integer square root (exact on the squares the model meets)
ISqrt(n) == CHOOSE k \in 0..n : k * k <= n /\ (k + 1) * (k + 1) > n

\* np.linalg.norm of a 3-vector
Norm(r) ==
  IF ~IsFiniteVec(r) THEN NaN ELSE ISqrt(r[1] * r[1] + r[2] * r[2] + r[3] * r[3])

\* ---- tools.coes2rv and tools.true_anomaly_r ----
Cos90(d) == CASE d = 0 -> 1 [] d = 90 -> 0 [] d = 180 -> -1 [] d = 270 -> 0

Sin90(d) == CASE d = 0 -> 0 [] d = 90 -> 1 [] d = 180 -> 0 [] d = 270 -> -1

RotZ(d, v) ==
  << Cos90(d) * v[1] - Sin90(d) * v[2], Sin90(d) * v[1] + Cos90(d) * v[2], v[3] >>

RotX(d, v) ==
  << v[1], Cos90(d) * v[2] - Sin90(d) * v[3], Sin90(d) * v[2] + Cos90(d) * v[3] >>

\* elements <<a, e, i, raan, aop, ta>>, angles in degrees
coes2rv(coes) ==
  LET a == coes[1]
      e == coes[2]
      r_norm == (a * (1 - e * e)) \div (1 + e * Cos90(coes[6]))
      speed == ISqrt(mu * a) \div r_norm
      r_pf == << r_norm * Cos90(coes[6]), r_norm * Sin90(coes[6]), 0 >>
      v_pf == << 0 - speed * Sin90(coes[6]), speed * (e + Cos90(coes[6])), 0 >>
      toInertial(v) == RotZ(coes[4], RotX(coes[3], RotZ(coes[5], v)))
  IN  [r |-> toInertial(r_pf), v |-> toInertial(v_pf)]

\* angle of the position in degrees; 0 when it is not defined
true_anomaly_r(y) ==
  IF ~IsFiniteVec(y) THEN NaN
  ELSE IF y[1] > 0 /\ y[2] = 0 THEN 0
  ELSE IF y[1] = 0 /\ y[2] > 0 THEN 90
  ELSE IF y[1] < 0 /\ y[2] = 0 THEN 180
  ELSE IF y[1] = 0 /\ y[2] < 0 THEN 270
  ELSE 0

\* ---- inputs ----
Elements == { <<1, 0, 0, 0, 0, 0>>, <<1, 0, 90, 0, 0, 90>> }

RawStates == { <<1, 0, 0, 0, 1, 0>>, <<1, 2, 3, 4, 5, 6>> }

TSpans == (0 - MaxT)..MaxT

Dts == (0 - MaxDt)..MaxDt

\* ---- diffy_q ----
diffy_q(t, y) ==
  LET r == << y[1], y[2], y[3] >>
      norm_r == Norm(r)
      cube == FMul(norm_r, FMul(norm_r, norm_r))
      acc(i) == FDiv(FMul(FNeg(r[i]), mu), cube)
  IN  << y[4], y[5], y[6], acc(1), acc(2), acc(3) >>

\* ---- scipy.integrate.ode with lsoda, as the loop sees it ----
NaNState == << NaN, NaN, NaN, NaN, NaN, NaN >>

FiniteStates ==
  { <<1, 0, 0, 0, 1, 0>>, <<0, 1, 0, -1, 0, 0>>, <<0, 0, 0, -1, 0, 0>> }

\* times a failed call can stop at: anywhere short of the target
ShortOf(t, target) ==
  IF target > t THEN t..(target - 1)
  ELSE IF target < t THEN (target + 1)..t
  ELSE {t}

\* outcomes of solver.integrate(target) from (t, y): success reaches the
\* target; failure stops short of it and clears the success flag.  A
\* derivative that is not finite never yields a new finite state.
IntegrateOutcomes(t, y, target) ==
  LET finiteRhs == IsFiniteVec(diffy_q(t, y))
      good == IF finiteRhs THEN FiniteStates ELSE {NaNState}
      bad == IF finiteRhs THEN FiniteStates ELSE {y, NaNState}
  IN  { [t |-> target, y |-> yy, success |-> 1] : yy \in good }
      \cup { [t |-> tt, y |-> yy, success |-> 0] : tt \in ShortOf(t, target), yy \in bad }

\* ---- the instance ----
VARIABLES
  self,            \* the attributes of the OrbitPropagator instance
  attrs,           \* names of the attributes assigned so far
  args,            \* arguments of the constructor call
  ctor,            \* "none", "running", "returned" or "raised"
  phase,           \* "None", "Configured", "Running" or "Complete"
  err,             \* exception raised by the constructor, or "none"
  calls,           \* calls of propagate_orbit so far
  integrateCalls,  \* calls of solver.integrate so far
  failedStep,      \* value of step at the first failed integrate, 0 if none
  lateCalls,       \* calls of solver.integrate made after a failed one
  singular         \* diffy_q has been evaluated at |r| = 0

vars ==
  << self, attrs, args, ctor, phase, err, calls, integrateCalls, failedStep,
     lateCalls, singular >>

ghosts == << calls, integrateCalls, failedStep, lateCalls, singular >>

ZeroState == << 0, 0, 0, 0, 0, 0 >>

Blank ==
  [r0 |-> <<>>, v0 |-> <<>>, y0 |-> <<>>, tspan |-> 0, dt |-> 0, n_steps |-> 0,
   ys |-> <<>>, ts |-> <<>>, ta |-> <<>>, step |-> 0,
   solver |-> [t |-> 0, y |-> <<>>, success |-> 1], rs |-> <<>>, vs |-> <<>>]

NoArgs == [state0 |-> <<>>, tspan |-> 0, dt |-> 0, coes |-> FALSE, auto_orbit_prop |-> FALSE]

Init ==
  /\ self = Blank
  /\ attrs = {}
  /\ args = NoArgs
  /\ ctor = "none"
  /\ phase = "None"
  /\ err = "none"
  /\ calls = 0
  /\ integrateCalls = 0
  /\ failedStep = 0
  /\ lateCalls = 0
  /\ singular = FALSE

\* ---- __init__ ----
\* truncation in place of the ceiling
NSteps_trunc(tspan, dt) ==
  IF dt > 0 THEN (IF tspan >= 0 THEN tspan \div dt ELSE 0 - ((0 - tspan) \div dt))
  ELSE (IF tspan >= 0 THEN 0 - (tspan \div (0 - dt)) ELSE (0 - tspan) \div (0 - dt))

\* int(np.ceil(tspan/dt)), dt # 0
NSteps(tspan, dt) ==
  IF dt > 0 THEN 0 - ((0 - tspan) \div dt) ELSE 0 - (tspan \div (0 - dt))

\* np.zeros((n, k)): n rows indexed 0..n-1
Zeros(n, row) == [i \in 0..(n - 1) |-> row]

\* the loop starting at the row of the initial condition
InitialStep_zero == 1 - 1

InitialStep == 1

\* the constructor propagating whatever the flag says
RunsAtConstruction_always(auto_orbit_prop) == TRUE

\* if auto_orbit_prop: self.propagate_orbit()
RunsAtConstruction(auto_orbit_prop) == auto_orbit_prop

\* the raw-state branch: r0 is assigned twice, v0 never
RawBranch(state0) == [r0 |-> SubSeq(state0, 4, 6), attrs |-> {"r0"}]

CoesBranch(state0) ==
  [r0 |-> coes2rv(state0).r, v0 |-> coes2rv(state0).v, attrs |-> {"r0", "v0"}]

Raise(s, a, e) ==
  /\ self' = s
  /\ attrs' = a
  /\ err' = e
  /\ ctor' = "raised"
  /\ phase' = "None"
  /\ UNCHANGED ghosts

Construct(state0, tspan, dt, coes, auto_orbit_prop) ==
  /\ ctor = "none"
  /\ args' = [state0 |-> state0, tspan |-> tspan, dt |-> dt, coes |-> coes,
              auto_orbit_prop |-> auto_orbit_prop]
  /\ IF ~coes
     THEN \* self.v0 is read at line 33 and was never assigned
          Raise([self EXCEPT !.r0 = RawBranch(state0).r0], RawBranch(state0).attrs,
                "AttributeError")
     ELSE
       LET b == CoesBranch(state0)
           y0 == b.r0 \o b.v0
           s1 == [self EXCEPT !.r0 = b.r0, !.v0 = b.v0, !.y0 = y0,
                              !.tspan = tspan, !.dt = dt]
           a1 == b.attrs \cup {"y0", "tspan", "dt", "cb"}
       IN
       IF dt = 0
       THEN Raise(s1, a1, "ZeroDivisionError")
       ELSE
         LET n == NSteps(tspan, dt)
             s2 == [s1 EXCEPT !.n_steps = n]
             a2 == a1 \cup {"n_steps"}
         IN
         IF n < 0
         THEN \* np.zeros rejects a negative dimension
              Raise(s2, a2, "ValueError")
         ELSE IF n = 0
         THEN \* ts[0] = 0 on an array without rows
              Raise([s2 EXCEPT !.ys = Zeros(0, ZeroState), !.ts = Zeros(0, 0)],
                    a2 \cup {"ys", "ts"}, "IndexError")
         ELSE
           LET s3 == [s2 EXCEPT
                        !.ys = [Zeros(n, ZeroState) EXCEPT ![0] = y0],
                        !.ts = [Zeros(n, 0) EXCEPT ![0] = 0],
                        !.step = InitialStep,
                        !.ta = [Zeros(n, 0) EXCEPT ![0] = true_anomaly_r(y0)],
                        !.solver = [t |-> 0, y |-> y0, success |-> 1]]
               a3 == a2 \cup {"ys", "ts", "step", "ta", "solver"}
           IN
           /\ self' = s3
           /\ attrs' = a3
           /\ err' = "none"
           /\ IF RunsAtConstruction(auto_orbit_prop)
              THEN /\ ctor' = "running"
                   /\ phase' = "Running"
                   /\ calls' = calls + 1
              ELSE /\ ctor' = "returned"
                   /\ phase' = "Configured"
                   /\ calls' = calls
           /\ UNCHANGED << integrateCalls, failedStep, lateCalls, singular >>

\* ---- propagate_orbit ----
\* self.solver.successful: the bound method itself, never called, so truthy
successful(solver) == TRUE

\* while self.solver.successful and self.step < self.n_steps
LoopCond(s) == successful(s.solver) /\ s.step < s.n_steps

\* a target one interval too far
Target_far(t, dt) == t + dt + dt

\* self.solver.t + self.dt
Target(t, dt) == t + dt

\* the caller invokes propagate_orbit on a constructed instance
Propagate ==
  /\ ctor = "returned"
  /\ phase \in {"Configured", "Complete"}
  /\ calls < MaxCalls
  /\ phase' = "Running"
  /\ calls' = calls + 1
  /\ UNCHANGED << self, attrs, args, ctor, err, integrateCalls, failedStep,
                  lateCalls, singular >>

\* one iteration of the loop, lines 66-70
Record(s, o) ==
  [s EXCEPT !.solver = [t |-> o.t, y |-> o.y,
                        success |-> IF s.solver.success = 0 THEN 0 ELSE o.success],
            !.ts = [s.ts EXCEPT ![s.step] = o.t],
            !.ys = [s.ys EXCEPT ![s.step] = o.y],
            !.ta = [s.ta EXCEPT ![s.step] = true_anomaly_r(o.y)],
            !.step = s.step + 1]

Step(ok) ==
  /\ phase = "Running"
  /\ LoopCond(self)
  /\ \E o \in IntegrateOutcomes(self.solver.t, self.solver.y,
                                Target(self.solver.t, self.dt)) :
       /\ (o.success = 1) = ok
       /\ self' = Record(self, o)
       /\ failedStep' = IF failedStep = 0 /\ o.success = 0 THEN self.step ELSE failedStep
  /\ integrateCalls' = integrateCalls + 1
  /\ lateCalls' = IF failedStep # 0 THEN lateCalls + 1 ELSE lateCalls
  /\ singular' = (singular \/ Norm(SubSeq(self.solver.y, 1, 3)) = 0)
  /\ UNCHANGED << attrs, args, ctor, phase, err, calls >>

StepOk == Step(TRUE)

StepFail == Step(FALSE)

\* the loop ends; lines 73-74 slice ys into rs and vs
Finish ==
  /\ phase = "Running"
  /\ ~LoopCond(self)
  /\ self' = [self EXCEPT !.rs = [i \in DOMAIN self.ys |-> SubSeq(self.ys[i], 1, 3)],
                          !.vs = [i \in DOMAIN self.ys |-> SubSeq(self.ys[i], 4, 6)]]
  /\ attrs' = attrs \cup {"rs", "vs"}
  /\ phase' = "Complete"
  /\ ctor' = "returned"
  /\ UNCHANGED << args, err, calls, integrateCalls, failedStep, lateCalls, singular >>

ConstructAny ==
  \E coes \in BOOLEAN, auto_orbit_prop \in BOOLEAN, tspan \in TSpans, dt \in Dts :
    \E state0 \in (IF coes THEN Elements ELSE RawStates) :
      Construct(state0, tspan, dt, coes, auto_orbit_prop)

Next == ConstructAny \/ Propagate \/ StepOk \/ StepFail \/ Finish

Spec == Init /\ [][Next]_vars

\* ---- properties ----
Constructed == ctor \in {"running", "returned"}

ValidConfig == args.tspan > 0 /\ args.dt > 0

Rows(n) == 0..(n - 1)

\* C1: once an integrate call has failed no further integrate call is made,
\* the loop ends with step < n_steps, every row from the failed step on still
\* holds its allocated zero, and the instance still reaches Complete.
\* Stated for tspan > 0 and dt > 0.
C1_HaltsOnFailure ==
  (ValidConfig /\ failedStep # 0) =>
    /\ lateCalls = 0
    /\ self.step < self.n_steps
    /\ \A i \in DOMAIN self.ts :
         i >= failedStep =>
           self.ts[i] = 0 /\ self.ys[i] = ZeroState /\ self.ta[i] = 0

\* C2: with coes=False construction succeeds, position is components 0..2
\* and velocity components 3..5 of state0, and y0 and row 0 of ys equal state0.
C2_RawStateSplit ==
  (ctor # "none" /\ ~args.coes) =>
    /\ ctor # "raised"
    /\ self.r0 = SubSeq(args.state0, 1, 3)
    /\ self.v0 = SubSeq(args.state0, 4, 6)
    /\ self.y0 = args.state0
    /\ self.ys[0] = args.state0

\* C3: for tspan > 0 and dt > 0, n_steps is the ceiling of tspan/dt, the
\* arrays ts, ys and ta have n_steps rows each, a run without a failed
\* integrate records exactly n_steps samples, and fewer are recorded only
\* after a failure.
C3_StepCount ==
  ("n_steps" \in attrs /\ ValidConfig) =>
    /\ self.n_steps * self.dt >= self.tspan
    /\ (self.n_steps - 1) * self.dt < self.tspan
    /\ DOMAIN self.ys = Rows(self.n_steps)
    /\ DOMAIN self.ts = Rows(self.n_steps)
    /\ DOMAIN self.ta = Rows(self.n_steps)
    /\ self.step <= self.n_steps
    /\ (phase = "Complete" /\ failedStep = 0 => self.step = self.n_steps)
    /\ (phase = "Complete" /\ self.step < self.n_steps => failedStep # 0)

C3_Witness ==
  /\ phase = "Complete"
  /\ failedStep = 0
  /\ args.tspan = 3
  /\ args.dt = 2
  /\ self.n_steps = 2
  /\ self.step = 2

\* C4: in every state of a constructed instance row 0 is the initial
\* condition: ts[0] = 0, ys[0] = y0 (the resolved position followed by the
\* resolved velocity), ta[0] = the true anomaly of y0; the loop writes only
\* rows of index 1 and more.
C4_SampleZero ==
  Constructed =>
    /\ self.y0 = self.r0 \o self.v0
    /\ self.ts[0] = 0
    /\ self.ys[0] = self.y0
    /\ self.ta[0] = true_anomaly_r(self.y0)
    /\ self.step >= 1

C4_Witness ==
  /\ phase = "Complete"
  /\ integrateCalls >= 2
  /\ self.ys[1] # self.ys[0]
  /\ self.ts[1] # 0

\* C5: every recorded row k >= 1 has ts[k] = k*dt, also a row recorded
\* after a call that stopped short of its target.  Stated for tspan > 0 and
\* dt > 0.
C5_ExactSpacing ==
  (Constructed /\ ValidConfig) =>
    \A k \in DOMAIN self.ts : (1 <= k /\ k < self.step) => self.ts[k] = k * self.dt

\* C6: a configuration with tspan <= 0 or dt <= 0 is rejected by the
\* constructor before any array is allocated and before the integrator is
\* set up or run.
C6_RejectsInvalid ==
  (ctor # "none" /\ ~ValidConfig) =>
    /\ ctor = "raised"
    /\ attrs \cap {"ys", "ts", "ta", "solver"} = {}
    /\ integrateCalls = 0

\* C7: with auto_orbit_prop the constructor calls propagate_orbit once, after
\* row 0 is recorded and the integrator is set to (y0, 0), and returns a
\* Complete instance; without it the constructor returns a Configured
\* instance with step = 1, the integrator at t = 0 and no integrate call, and
\* no integrate call happens before propagate_orbit is called.
C7_AutoRun ==
  /\ [](calls = 0 => integrateCalls = 0 /\ phase \in {"None", "Configured"})
  /\ [][ /\ (ctor = "none" /\ ctor' = "running") =>
              /\ args'.auto_orbit_prop
              /\ calls' = 1
              /\ integrateCalls' = 0
              /\ self'.ts[0] = 0
              /\ self'.ys[0] = self'.y0
              /\ self'.solver = [t |-> 0, y |-> self'.y0, success |-> 1]
         /\ (ctor # "returned" /\ ctor' = "returned") =>
              IF args'.auto_orbit_prop
              THEN phase' = "Complete" /\ calls' = 1
              ELSE /\ phase' = "Configured"
                   /\ calls' = 0
                   /\ self'.step = 1
                   /\ self'.solver.t = 0
                   /\ integrateCalls' = 0
                   /\ \A i \in DOMAIN self'.ts : i >= 1 => self'.ys[i] = ZeroState
       ]_vars

C7_Witness ==
  /\ ctor = "returned"
  /\ args.auto_orbit_prop
  /\ phase = "Complete"
  /\ calls = 1
  /\ integrateCalls >= 2

\* C8: an evaluation of diffy_q at |r| = 0 is reported as a SingularityError
\* and stops the propagation short of n_steps rows; no value that is not
\* finite is ever stored in ys, ts or ta.  Stated for tspan > 0 and dt > 0.
C8_SingularityGuard ==
  /\ (ValidConfig /\ singular) => (err = "SingularityError" /\ self.step < self.n_steps)
  /\ (Constructed /\ ValidConfig) =>
       \A i \in DOMAIN self.ts :
         IsFiniteVec(self.ys[i]) /\ IsFinite(self.ts[i]) /\ IsFinite(self.ta[i])

\* C9: propagate_orbit called on a Complete instance is rejected with a
\* ReinvocationError or starts again from the initial condition (step = 1,
\* integrator back at (y0, 0)).  Stated for tspan > 0 and dt > 0.
C9_Reinvocation ==
  [][ (ValidConfig /\ phase = "Complete" /\ calls' = calls + 1) =>
        \/ err' = "ReinvocationError"
        \/ /\ self'.step = 1
           /\ self'.solver = [t |-> 0, y |-> self'.y0, success |-> 1]
    ]_vars

\* C10: for tspan > 0 and dt > 0 the integrator is never advanced past
\* (n_steps-1)*dt, no row holds a time of tspan or more, and a run without a
\* failed integrate ends with its last row at (n_steps-1)*dt < tspan.
C10_LastSample ==
  (Constructed /\ ValidConfig) =>
    /\ self.solver.t <= (self.n_steps - 1) * self.dt
    /\ \A i \in DOMAIN self.ts : self.ts[i] < self.tspan
    /\ (phase = "Complete" /\ failedStep = 0) =>
         /\ self.ts[self.n_steps - 1] = (self.n_steps - 1) * self.dt
         /\ self.ts[self.n_steps - 1] < self.tspan

C10_Witness ==
  /\ phase = "Complete"
  /\ failedStep = 0
  /\ args.tspan = 2
  /\ args.dt = 1
  /\ self.ts[1] = 1

====
